---- MODULE Spec2Model ----
(***************************************************************************)
(* Streaming chat orchestration of my-ai-app/backend: main.py (the         *)
(* chat_stream endpoint and its event_generator), persistence.py (the flat *)
(* file store) and gemini_client.py (history formatting and the streaming  *)
(* driver).                                                                *)
(*                                                                         *)
(* Text is a sequence of one-character strings, so that str.split,         *)
(* str.strip, " ".join and += are computed character by character.         *)
(* The server runs its coroutines on one event loop: an action is the code *)
(* a coroutine runs between two suspension points (await / yield).         *)
(***************************************************************************)
EXTENDS Integers, Sequences, FiniteSets, TLC

\* store     the server state: STATE.sessions and STATE.gemini_client of
\*           main.py, sessions.json and the history files of persistence.py,
\*           and the clock datetime.now reads for Message.timestamp
\* req       the calls of chat_stream in progress: request, locals, position
\* received  the number of chat requests received so far
\* pair      two runs of one call side by side (used by SpecPair only)
\* norm      one use of the history formatting of stream_chat_response on
\*           its own: the records given and the outcome (SpecNorm only)
\* response_stream
\*           the items the provider has delivered on the response stream
\*           of the call in progress (SpecSolo and SpecFault only)
VARIABLES store, req, received, pair, norm, response_stream

vars == <<store, req, received, pair, norm, response_stream>>

-----------------------------------------------------------------------------
(* Bounds of the model *)

\* chunks with text one response stream may carry
MaxChunks == 2

\* chunks without text the provider may send in a row
MaxEmpty == 1

\* chat requests the server receives in one run
MaxReq == 2

\* program constant: request.message.split()[:5]
TitleWords == 5

-----------------------------------------------------------------------------
(* Text *)

Whitespace == {" ", "\t"}

Min(a, b) == IF a < b THEN a ELSE b

\* seq[:n]
Take(seq, n) == SubSeq(seq, 1, Min(n, Len(seq)))

\* str.strip(): drop leading and trailing whitespace
RECURSIVE lstrip(_)
lstrip(s) ==
    IF s = <<>> THEN <<>>
    ELSE IF Head(s) \in Whitespace THEN lstrip(Tail(s)) ELSE s

RECURSIVE rstrip(_)
rstrip(s) ==
    IF s = <<>> THEN <<>>
    ELSE IF s[Len(s)] \in Whitespace THEN rstrip(SubSeq(s, 1, Len(s) - 1)) ELSE s

strip(s) == rstrip(lstrip(s))

\* str.split() without arguments: the maximal runs of non-whitespace
\* characters, in order; `word` is the run being read
RECURSIVE split_from(_, _)
split_from(s, word) ==
    IF s = <<>> THEN (IF word = <<>> THEN <<>> ELSE <<word>>)
    ELSE IF Head(s) \in Whitespace
         THEN (IF word = <<>> THEN <<>> ELSE <<word>>) \o split_from(Tail(s), <<>>)
         ELSE split_from(Tail(s), Append(word, Head(s)))

split(s) == split_from(s, <<>>)

\* sep.join(items)
RECURSIVE join(_, _)
join(sep, items) ==
    IF items = <<>> THEN <<>>
    ELSE IF Len(items) = 1 THEN items[1]
    ELSE items[1] \o sep \o join(sep, Tail(items))

\* the default title of models.Session and the literal chat_stream compares with
NewChat == <<"N", "e", "w", " ", "C", "h", "a", "t">>

\* " ".join(request.message.split()[:5])
new_title(message) == join(<<" ">>, Take(split(message), TitleWords))

-----------------------------------------------------------------------------
(* models.py *)

\* class Session: id and title (default "New Chat"); created_at, which only
\* orders the list GET /api/sessions returns, is left out
Session(id, title) == [id |-> id, title |-> title]

\* class Message: session_id, role, text, timestamp (default now)
Message(session_id, role, text, timestamp) ==
    [session_id |-> session_id, role |-> role, text |-> text,
     timestamp |-> timestamp]

\* a local variable that holds no Message yet (real timestamps start at 1)
NoMessage == Message("", "", <<>>, 0)

-----------------------------------------------------------------------------
(* persistence.py: sessions.json and history/<session_id>.json *)

\* dict[k] = v
Put(map, k, v) == [x \in (DOMAIN map) \cup {k} |-> IF x = k THEN v ELSE map[x]]

EmptyMap == [x \in {} |-> x]

\* a file that parses: what json.load gives back is what json.dump wrote
File(data) == [ok |-> TRUE, data |-> data]

\* sessions.json is absent, malformed or a dict of sessions
NoFile == [exists |-> FALSE, ok |-> FALSE, data |-> EmptyMap]

load_all_sessions(sessions_file) ==
    IF ~sessions_file.exists THEN EmptyMap
    ELSE IF ~sessions_file.ok THEN EmptyMap
    ELSE sessions_file.data

save_session(sessions_file, session) ==
    [exists |-> TRUE, ok |-> TRUE,
     data |-> Put(load_all_sessions(sessions_file), session.id, session)]

\* what a malformed file holds is returned all the same
load_session_history_salvages(history_files, session_id) ==
    IF session_id \notin DOMAIN history_files THEN <<>>
    ELSE history_files[session_id].data

\* history_files maps a session id to its history file, when the file exists
load_session_history(history_files, session_id) ==
    IF session_id \notin DOMAIN history_files THEN <<>>
    ELSE IF ~history_files[session_id].ok THEN <<>>
    ELSE history_files[session_id].data

\* the history file is rewritten with the new message alone
append_message_overwrites(history_files, message) ==
    Put(history_files, message.session_id, File(<<message>>))

append_message_to_session(history_files, message) ==
    Put(history_files, message.session_id,
        File(Append(load_session_history(history_files, message.session_id),
                    message)))

update_session_title(sessions_file, session_id, title) ==
    LET all_sessions == load_all_sessions(sessions_file)
    IN  IF session_id \in DOMAIN all_sessions
        THEN save_session(sessions_file,
                          [all_sessions[session_id] EXCEPT !.title = title])
        ELSE sessions_file

-----------------------------------------------------------------------------
(* gemini_client.py: the history formatting of stream_chat_response *)

\* Python values a record's field can hold
Str(s)  == [t |-> "str",  s |-> s,    l |-> <<>>]
List(l) == [t |-> "list", s |-> <<>>, l |-> l]
None    == [t |-> "none", s |-> <<>>, l |-> <<>>]

\* bool(value)
Truthy(v) ==
    CASE v.t = "str"  -> v.s # <<>>
      [] v.t = "list" -> v.l # <<>>
      [] OTHER        -> FALSE

\* a or b
Or(a, b) == IF Truthy(a) THEN a ELSE b

\* A history record: an object with attributes or a dict with keys. `has` is
\* the set of attributes / keys present; role, text and parts are their values.
Record(shape, has, role, text, parts) ==
    [shape |-> shape, has |-> has, role |-> role, text |-> text, parts |-> parts]

\* a models.Message as stream_chat_response sees it
MessageObject(m) ==
    Record("object", {"session_id", "role", "text", "timestamp"},
           m.role, Str(m.text), None)

\* a models.Content of the request: attributes parts and role
Content(parts, role) == Record("object", {"parts", "role"}, role, None, parts)

\* a dict's text is tried before its parts
extract_text_first(msg) ==
    IF msg.shape = "object" /\ "text" \in msg.has
    THEN [failed  |-> "role" \notin msg.has,
          role    |-> msg.role,
          content |-> msg.text]
    ELSE IF msg.shape = "dict"
    THEN [failed  |-> FALSE,
          role    |-> IF "role" \in msg.has THEN msg.role ELSE "user",
          content |-> Or(IF "text" \in msg.has THEN msg.text ELSE Str(<<>>),
                         IF "parts" \in msg.has THEN msg.parts ELSE Str(<<>>))]
    ELSE [failed  |-> FALSE,
          role    |-> IF "role" \in msg.has THEN msg.role ELSE "user",
          content |-> Or(IF "parts" \in msg.has THEN msg.parts ELSE None,
                         IF "text" \in msg.has THEN msg.text ELSE Str(<<>>))]

\* lines 26-45: role and content of one record; failed = AttributeError
extract(msg) ==
    IF msg.shape = "object" /\ "text" \in msg.has
    THEN [failed  |-> "role" \notin msg.has,
          role    |-> msg.role,
          content |-> msg.text]
    ELSE IF msg.shape = "dict"
    THEN [failed  |-> FALSE,
          role    |-> IF "role" \in msg.has THEN msg.role ELSE "user",
          content |-> Or(IF "parts" \in msg.has THEN msg.parts ELSE Str(<<>>),
                         IF "text" \in msg.has THEN msg.text ELSE Str(<<>>))]
    ELSE [failed  |-> FALSE,
          role    |-> IF "role" \in msg.has THEN msg.role ELSE "user",
          content |-> Or(IF "parts" \in msg.has THEN msg.parts ELSE None,
                         IF "text" \in msg.has THEN msg.text ELSE Str(<<>>))]

\* every item of a list is followed by a space
coerce_trailing_space(content) ==
    IF content.t = "list"
    THEN Str(join(<<" ">>, content.l) \o <<" ">>)
    ELSE content

\* lines 53-54: a list becomes its items joined by single spaces
coerce(content) ==
    IF content.t = "list" THEN Str(join(<<" ">>, content.l)) ELSE content

\* lines 47-60: the turns one record adds to formatted_history
format_one(msg) ==
    LET e           == extract(msg)
        gemini_role == IF e.role = "model" THEN "model" ELSE "user"
        content     == coerce(e.content)
    IN  IF Truthy(content)
        THEN <<[role |-> gemini_role, parts |-> <<content.s>>]>>
        ELSE <<>>

\* lines 23-60: formatted_history, or the error the loop raises
RECURSIVE format_history(_)
format_history(chat_history_objects) ==
    IF chat_history_objects = <<>> THEN [failed |-> FALSE, turns |-> <<>>]
    ELSE IF extract(Head(chat_history_objects)).failed
         THEN [failed |-> TRUE, turns |-> <<>>]
         ELSE LET rest == format_history(Tail(chat_history_objects))
              IN  [failed |-> rest.failed,
                   turns  |-> IF rest.failed THEN <<>>
                              ELSE format_one(Head(chat_history_objects))
                                   \o rest.turns]

\* [MessageObject(m) for m in history]
RECURSIVE AsObjects(_)
AsObjects(history) ==
    IF history = <<>> THEN <<>>
    ELSE <<MessageObject(Head(history))>> \o AsObjects(Tail(history))

-----------------------------------------------------------------------------
(* gemini_client.py: the provider's response stream *)

\* One item the provider's response_stream delivers: a chunk with its text
\* ("" for a chunk that carries none), the end of the stream, or an error
\* raised while the stream is read.
Chunk(text)  == [kind |-> "chunk", text |-> text]
StreamEnd    == [kind |-> "end",   text |-> <<>>]
Raise(descr) == [kind |-> "raise", text |-> descr]

\* every chunk is yielded, with or without text
next_fragment_unfiltered(items) ==
    IF items = <<>> THEN StreamEnd
    ELSE IF Head(items).kind = "end" THEN StreamEnd
    ELSE Head(items)

\* lines 68-70: read response_stream up to the next chunk with text
RECURSIVE next_fragment(_)
next_fragment(items) ==
    IF items = <<>> THEN StreamEnd
    ELSE IF Head(items).kind = "raise" THEN Head(items)
    ELSE IF Head(items).kind = "end" THEN StreamEnd
    ELSE IF Head(items).text # <<>> THEN Head(items)
    ELSE next_fragment(Tail(items))

-----------------------------------------------------------------------------
(* main.py: chat_stream *)

\* the events event_generator yields
Fragment(chunk) == [event |-> "fragment", data |-> chunk]
StreamFinished ==
    <<"S", "t", "r", "e", "a", "m", " ", "f", "i", "n", "i", "s", "h", "e", "d">>
EndEvent        == [event |-> "end", data |-> StreamFinished]
ErrorEvent(e)   == [event |-> "error", data |-> e]

\* One call of chat_stream: the request, the locals of chat_stream and of
\* event_generator, and what the call did to its collaborators.
\*   pc        where the call is: idle (not received), rejected, ready (the
\*             response is returned, the generator not started), polling
\*             (line 156), at_fragment (line 161), at_end (line 164),
\*             at_error (line 168), done
\*   seed      the history of each model.start_chat call
\*   sent      the text of each chat_session.send_message call
\*   response  what stream_chat_response has produced so far: the chunks
\*             it yielded, then the end of the stream or the error raised
\*   polled    the answers of http_request.is_disconnected()
\*   before    the history append_message_to_session loaded at line 131
\*   solo      no other call on the same session was in flight with this one
NewCall ==
    [pc |-> "idle", session_id |-> "", message |-> <<>>, history |-> <<>>,
     status |-> 0, user_msg |-> NoMessage, ai_msg |-> NoMessage,
     full_response_text |-> <<>>, chunk |-> <<>>, events |-> <<>>,
     seed |-> <<>>, sent |-> <<>>, response |-> <<>>, polled |-> <<>>,
     disconnected |-> FALSE, before |-> <<>>, solo |-> TRUE]

\* lines 118-123: the HTTP status validation gives
validate(g, q) ==
    IF q.session_id \notin DOMAIN g.sessions THEN 404
    ELSE IF g.gemini_client = "None" THEN 503
    ELSE 200

\* the user message is built and never written
save_user_message_unwritten(g, q) ==
    [g |-> [g EXCEPT !.now = g.now + 1],
     q |-> [q EXCEPT !.user_msg = Message(q.session_id, "user", q.message,
                                          g.now + 1)]]

\* lines 125-131
save_user_message(g, q) ==
    LET user_msg == Message(q.session_id, "user", q.message, g.now + 1)
    IN  [g |-> [g EXCEPT !.now = g.now + 1,
                         !.history_files =
                             append_message_to_session(@, user_msg)],
         q |-> [q EXCEPT !.user_msg = user_msg,
                         !.before = load_session_history(g.history_files,
                                                         q.session_id)]]

\* the title is derived from every message, not only the first
update_title_always(g, q) ==
    [g EXCEPT !.sessions[q.session_id].title = new_title(q.message),
              !.sessions_file =
                  update_session_title(@, q.session_id, new_title(q.message))]

\* lines 133-139
update_title(g, q) ==
    IF g.sessions[q.session_id].title = NewChat
    THEN [g EXCEPT !.sessions[q.session_id].title = new_title(q.message),
                   !.sessions_file =
                       update_session_title(@, q.session_id,
                                            new_title(q.message))]
    ELSE g

\* the user message is saved before the request is validated
chat_stream_saves_first(g, q) ==
    LET saved == save_user_message(g, q)
    IN  IF validate(g, q) # 200
        THEN [g |-> saved.g,
              q |-> [saved.q EXCEPT !.pc = "rejected", !.status = validate(g, q)]]
        ELSE [g |-> update_title(saved.g, saved.q),
              q |-> [saved.q EXCEPT !.pc = "ready", !.status = 200]]

\* lines 114-180, up to the return of the response
chat_stream(g, q) ==
    IF validate(g, q) # 200
    THEN [g |-> g, q |-> [q EXCEPT !.pc = "rejected", !.status = validate(g, q)]]
    ELSE LET saved == save_user_message(g, q)
         IN  [g |-> update_title(saved.g, saved.q),
              q |-> [saved.q EXCEPT !.pc = "ready", !.status = 200]]

-----------------------------------------------------------------------------
(* main.py: event_generator *)

\* the history of the request is trusted
current_history_of_request(g, q) == q.history

\* the history is the one from before the request
current_history_before_request(g, q) == AsObjects(q.before)

\* line 148
current_history(g, q) ==
    AsObjects(load_session_history(g.history_files, q.session_id))

\* the except clause is missing: the error ends the generator unreported
on_fragment_unreported(q, item) ==
    CASE item.kind = "chunk" -> [q EXCEPT !.pc = "polling", !.chunk = item.text]
      [] item.kind = "end"   -> [q EXCEPT !.pc = "at_end",
                                          !.events = Append(@, EndEvent)]
      [] OTHER               -> [q EXCEPT !.pc = "at_error"]

\* what the generator does with the outcome of reading the stream: a chunk
\* is held while the caller's liveness is awaited (line 156), the end of the
\* stream yields the end marker (line 164), an error yields the error event
\* (lines 166-168)
on_fragment(q, item) ==
    CASE item.kind = "chunk" -> [q EXCEPT !.pc = "polling", !.chunk = item.text]
      [] item.kind = "end"   -> [q EXCEPT !.pc = "at_end",
                                          !.events = Append(@, EndEvent)]
      [] OTHER               -> [q EXCEPT !.pc = "at_error",
                                          !.events = Append(@, ErrorEvent(item.text))]

AttributeError == <<"n", "o", " ", "r", "o", "l", "e">>

\* lines 143-155 and gemini_client.py 23-70: the first step of the generator
start_stream(g, q, items) ==
    LET formatted == format_history(current_history(g, q))
    IN  IF formatted.failed
        THEN on_fragment(q, Raise(AttributeError))
        ELSE on_fragment([q EXCEPT !.seed = Append(@, formatted.turns),
                                   !.sent = Append(@, q.message),
                                   !.response = Append(@, next_fragment(items))],
                         next_fragment(items))

\* the chunk is accumulated before the caller's liveness is looked at
poll_accumulates_first(q) ==
    IF q.disconnected
    THEN [q EXCEPT !.polled = Append(@, TRUE),
                   !.full_response_text = @ \o q.chunk,
                   !.pc = "at_end",
                   !.events = Append(@, EndEvent)]
    ELSE [q EXCEPT !.polled = Append(@, FALSE),
                   !.full_response_text = @ \o q.chunk,
                   !.events = Append(@, Fragment(q.chunk)),
                   !.pc = "at_fragment"]

\* lines 156-164: the answer of is_disconnected() for the chunk in hand
poll(q) ==
    IF q.disconnected
    THEN [q EXCEPT !.polled = Append(@, TRUE),
                   !.pc = "at_end",
                   !.events = Append(@, EndEvent)]
    ELSE [q EXCEPT !.polled = Append(@, FALSE),
                   !.full_response_text = @ \o q.chunk,
                   !.events = Append(@, Fragment(q.chunk)),
                   !.pc = "at_fragment"]

\* the caller's liveness is looked at when the generator is resumed, before
\* the next chunk is read
resume_probes_first(q, items) ==
    IF q.disconnected
    THEN [q EXCEPT !.polled = Append(@, TRUE),
                   !.pc = "at_end",
                   !.events = Append(@, EndEvent)]
    ELSE on_fragment([q EXCEPT !.response = Append(@, next_fragment(items))],
                     next_fragment(items))

\* the driver is called anew for every event asked for: the conversation is
\* opened and the message submitted again
resume_resubmits(q, items) ==
    on_fragment([q EXCEPT !.seed = Append(@, q.seed[Len(q.seed)]),
                          !.sent = Append(@, q.message),
                          !.response = Append(@, next_fragment(items))],
                next_fragment(items))

\* lines 151 and gemini_client.py 68-70: resumed after a fragment
resume(q, items) ==
    on_fragment([q EXCEPT !.response = Append(@, next_fragment(items))],
                next_fragment(items))

\* the reply is saved whenever it is not the empty string
save_ai_response_unstripped(g, q) ==
    IF q.full_response_text # <<>>
    THEN LET ai_msg == Message(q.session_id, "model", q.full_response_text,
                               g.now + 1)
         IN  [g |-> [g EXCEPT !.now = g.now + 1,
                              !.history_files =
                                  append_message_to_session(@, ai_msg)],
              q |-> [q EXCEPT !.ai_msg = ai_msg, !.pc = "done"]]
    ELSE [g |-> g, q |-> [q EXCEPT !.pc = "done"]]

\* the reply is saved after the loop, inside the try statement: an error
\* skips it
save_ai_response_in_try(g, q) ==
    IF q.pc = "at_end" /\ strip(q.full_response_text) # <<>>
    THEN LET ai_msg == Message(q.session_id, "model", q.full_response_text,
                               g.now + 1)
         IN  [g |-> [g EXCEPT !.now = g.now + 1,
                              !.history_files =
                                  append_message_to_session(@, ai_msg)],
              q |-> [q EXCEPT !.ai_msg = ai_msg, !.pc = "done"]]
    ELSE [g |-> g, q |-> [q EXCEPT !.pc = "done"]]

\* the reply is appended to the history the call read before it streamed,
\* and that is written back
save_ai_response_stale(g, q) ==
    IF strip(q.full_response_text) # <<>>
    THEN LET ai_msg == Message(q.session_id, "model", q.full_response_text,
                               g.now + 1)
         IN  [g |-> [g EXCEPT !.now = g.now + 1,
                              !.history_files =
                                  Put(@, q.session_id,
                                      File(q.before \o <<q.user_msg, ai_msg>>))],
              q |-> [q EXCEPT !.ai_msg = ai_msg, !.pc = "done"]]
    ELSE [g |-> g, q |-> [q EXCEPT !.pc = "done"]]

\* lines 170-178
save_ai_response(g, q) ==
    IF strip(q.full_response_text) # <<>>
    THEN LET ai_msg == Message(q.session_id, "model", q.full_response_text,
                               g.now + 1)
         IN  [g |-> [g EXCEPT !.now = g.now + 1,
                              !.history_files =
                                  append_message_to_session(@, ai_msg)],
              q |-> [q EXCEPT !.ai_msg = ai_msg, !.pc = "done"]]
    ELSE [g |-> g, q |-> [q EXCEPT !.pc = "done"]]

\* lines 90-96
create_new_session(g, id) ==
    LET new_session == Session(id, NewChat)
    IN  [g EXCEPT !.sessions = Put(@, id, new_session),
                  !.sessions_file = save_session(@, new_session)]

\* main.py 34-57: the state the lifespan start-up leaves
lifespan(client, sessions_file) ==
    LET loaded          == load_all_sessions(sessions_file)
        default_session == Session("default", NewChat)
    IN  [gemini_client |-> client,
         sessions      |-> IF loaded = EmptyMap
                           THEN Put(loaded, "default", default_session)
                           ELSE loaded,
         sessions_file |-> IF loaded = EmptyMap
                           THEN save_session(sessions_file, default_session)
                           ELSE sessions_file,
         history_files |-> EmptyMap,
         now           |-> 0]

-----------------------------------------------------------------------------
(* The environment: callers and the model provider *)

\* the calls of chat_stream that are in progress at one time
Reqs == {1, 2}

\* ids a request may name: the default session, and the id the next
\* create_new_session will draw (unknown to the server until then)
SessionIds == {"default", "s1"}
FreshIds   == {"s1"}

\* init_model gives None without an API key
Clients == {"None", "model"}

\* six words with runs of whitespace between them, and the two words of the
\* default title
LongMessage == <<"a", " ", " ", "b", "\t", "c", " ", "d", " ", "e", " ", "f">>
Messages    == {LongMessage, NewChat}

\* the history field of a request
Histories == {<<>>, <<Content(List(<< <<"x">> >>), "model")>>}

\* the text of the chunks that carry text, and what str(e) may be
FragmentTexts == {<<"a">>, <<" ">>}
Boom          == <<"b", "o", "o", "m">>
Errors        == {Boom}

Empties(k) == [i \in 1..k |-> Chunk(<<>>)]

\* what one read of response_stream may consume when the provider has at most
\* n chunks with text left: chunks without text, then a chunk with text, the
\* end of the stream or an error
Reads(n) ==
    {Empties(k) \o <<last>> :
        k \in 0..MaxEmpty,
        last \in {StreamEnd} \cup {Raise(e) : e \in Errors}
                   \cup {Chunk(t) : t \in (IF n > 0 THEN FragmentTexts ELSE {})}}

\* chunks among the items
RECURSIVE Chunks(_)
Chunks(items) ==
    IF items = <<>> THEN 0
    ELSE (IF Head(items).kind = "chunk" THEN 1 ELSE 0) + Chunks(Tail(items))

InFlight(q) ==
    q.pc \in {"ready", "waiting_first", "waiting_next", "polling", "at_fragment",
              "at_end", "at_error"}

-----------------------------------------------------------------------------
(* The server *)

Init ==
    /\ store \in {lifespan(client, NoFile) : client \in Clients}
    /\ req = [r \in Reqs |-> NewCall]
    /\ received = 0
    /\ pair = <<>>
    /\ norm = <<>>
    /\ response_stream = <<>>

\* POST /api/sessions
CreateSession ==
    /\ \E id \in FreshIds \ DOMAIN store.sessions :
           store' = create_new_session(store, id)
    /\ UNCHANGED <<req, received, pair, norm, response_stream>>

\* POST /api/chat/stream, up to the return of the EventSourceResponse (no
\* await in between: the step is atomic on the event loop); a new call takes
\* the first free place in req
ChatStream(r) ==
    /\ req[r].pc = "idle"
    /\ \A o \in Reqs : o < r => req[o].pc # "idle"
    /\ received < MaxReq
    /\ received' = received + 1
    /\ \E session_id \in SessionIds, message \in Messages, history \in {<<>>} :
         LET others == {o \in Reqs \ {r} :
                           InFlight(req[o]) /\ req[o].session_id = session_id}
             call   == chat_stream(store,
                                   [req[r] EXCEPT !.session_id = session_id,
                                                  !.message = message,
                                                  !.history = history])
             shared == call.q.pc = "ready" /\ others # {}
         IN  /\ store' = call.g
             /\ req' = [o \in Reqs |->
                          IF o = r THEN [call.q EXCEPT !.solo = ~shared]
                          ELSE IF shared /\ o \in others
                               THEN [req[o] EXCEPT !.solo = FALSE]
                               ELSE req[o]]
    /\ UNCHANGED <<pair, norm, response_stream>>

\* the response starts to iterate event_generator
StartStream(r) ==
    /\ req[r].pc = "ready"
    /\ \E items \in Reads(MaxChunks) :
           req' = [req EXCEPT ![r] = start_stream(store, req[r], items)]
    /\ UNCHANGED <<store, received, pair, norm, response_stream>>

\* the caller goes away while the generator waits for the liveness answer
\* or for the next chunk (is_disconnected is not asked before the first chunk)
Disconnect(r) ==
    /\ req[r].pc \in {"polling", "at_fragment"}
    /\ ~req[r].disconnected
    /\ req' = [req EXCEPT ![r].disconnected = TRUE]
    /\ UNCHANGED <<store, received, pair, norm, response_stream>>

\* await http_request.is_disconnected() returns
Poll(r) ==
    /\ req[r].pc = "polling"
    /\ req' = [req EXCEPT ![r] = poll(req[r])]
    /\ UNCHANGED <<store, received, pair, norm, response_stream>>

\* the response asks for the event after a fragment
Resume(r) ==
    /\ req[r].pc = "at_fragment"
    /\ \E items \in Reads(MaxChunks - Chunks(req[r].response)) :
           req' = [req EXCEPT ![r] = resume(req[r], items)]
    /\ UNCHANGED <<store, received, pair, norm, response_stream>>

\* the generator leaves its try statement: the finally clause runs
Finish(r) ==
    /\ req[r].pc \in {"at_end", "at_error"}
    /\ LET saved == save_ai_response(store, req[r])
       IN  /\ store' = saved.g
           /\ req' = [req EXCEPT ![r] = saved.q]
    /\ UNCHANGED <<received, pair, norm, response_stream>>

\* the call is over (rejected, or its generator exhausted): the request and
\* the locals of the call are gone
Return(r) ==
    /\ req[r].pc \in {"rejected", "done"}
    /\ req' = [req EXCEPT ![r] = NewCall]
    /\ UNCHANGED <<store, received, pair, norm, response_stream>>

Next ==
    \/ CreateSession
    \/ \E r \in Reqs : ChatStream(r)
    \/ \E r \in Reqs : StartStream(r)
    \/ \E r \in Reqs : Disconnect(r)
    \/ \E r \in Reqs : Poll(r)
    \/ \E r \in Reqs : Resume(r)
    \/ \E r \in Reqs : Finish(r)
    \/ \E r \in Reqs : Return(r)

Spec == Init /\ [][Next]_vars

\* A generator suspended at its last yield is resumed or closed by the
\* response that iterates it (or finalized by the event loop), so its finally
\* clause runs.
Fairness == \A r \in Reqs : WF_vars(Finish(r))

SpecLive == Spec /\ Fairness

-----------------------------------------------------------------------------
(* Two runs of one call side by side: the same server state, session id,    *)
(* message, provider and caller, and two different history fields.          *)

FreshStore == lifespan("model", NoFile)

\* the store after one exchange on the default session: LongMessage, answered
\* by the single fragment "a"
UsedStore ==
    LET call == chat_stream(FreshStore,
                            [NewCall EXCEPT !.session_id = "default",
                                            !.message = LongMessage])
        q1   == poll(start_stream(call.g, call.q, <<Chunk(<<"a">>)>>))
        q2   == resume(q1, <<StreamEnd>>)
    IN  save_ai_response(call.g, q2).g

PairStores == {FreshStore, UsedStore}

Run(g, q) == [g |-> g, q |-> q]

\* both runs are at pc
Both(pc) == pair[1].q.pc = pc /\ pair[2].q.pc = pc

InitPair ==
    /\ store = FreshStore
    /\ req = [r \in Reqs |-> NewCall]
    /\ received = 0
    /\ pair \in {<<Run(g, NewCall), Run(g, NewCall)>> : g \in PairStores}
    /\ norm = <<>>
    /\ response_stream = <<>>

PairChatStream ==
    /\ Both("idle")
    /\ \E session_id \in SessionIds, message \in Messages :
       \E h1 \in Histories : \E h2 \in Histories \ {h1} :
         LET Call(w, h) ==
                 chat_stream(pair[w].g,
                             [pair[w].q EXCEPT !.session_id = session_id,
                                               !.message = message,
                                               !.history = h])
         IN  pair' = <<Call(1, h1), Call(2, h2)>>
    /\ UNCHANGED <<store, req, received, norm, response_stream>>

PairStartStream ==
    /\ Both("ready")
    /\ \E items \in Reads(MaxChunks) :
           pair' = [w \in {1, 2} |->
                       Run(pair[w].g, start_stream(pair[w].g, pair[w].q, items))]
    /\ UNCHANGED <<store, req, received, norm, response_stream>>

PairDisconnect ==
    /\ \E pc \in {"polling", "at_fragment"} : Both(pc)
    /\ ~pair[1].q.disconnected
    /\ pair' = [w \in {1, 2} |->
                   Run(pair[w].g, [pair[w].q EXCEPT !.disconnected = TRUE])]
    /\ UNCHANGED <<store, req, received, norm, response_stream>>

PairPoll ==
    /\ Both("polling")
    /\ pair' = [w \in {1, 2} |-> Run(pair[w].g, poll(pair[w].q))]
    /\ UNCHANGED <<store, req, received, norm, response_stream>>

PairResume ==
    /\ Both("at_fragment")
    /\ \E items \in Reads(MaxChunks - Chunks(pair[1].q.response)) :
           pair' = [w \in {1, 2} |-> Run(pair[w].g, resume(pair[w].q, items))]
    /\ UNCHANGED <<store, req, received, norm, response_stream>>

PairFinish ==
    /\ \E pc \in {"at_end", "at_error"} : Both(pc)
    /\ pair' = [w \in {1, 2} |-> save_ai_response(pair[w].g, pair[w].q)]
    /\ UNCHANGED <<store, req, received, norm, response_stream>>

NextPair ==
    \/ PairChatStream
    \/ PairStartStream
    \/ PairDisconnect
    \/ PairPoll
    \/ PairResume
    \/ PairFinish

SpecPair == InitPair /\ [][NextPair]_vars

-----------------------------------------------------------------------------
(* One call on its own, on a server that has just started or that has had   *)
(* one exchange before. The items the provider delivers are kept as they    *)
(* come, chunks without text included, and the message may be the empty     *)
(* string.                                                                  *)

SoloMessages == Messages \cup {<<>>}

InitSolo ==
    /\ store \in {lifespan(client, NoFile) : client \in Clients} \cup {UsedStore}
    /\ req = [r \in Reqs |-> NewCall]
    /\ received = 0
    /\ pair = <<>>
    /\ norm = <<>>
    /\ response_stream = <<>>

\* POST /api/chat/stream, the one call of the run
SoloChatStream ==
    /\ req[1].pc = "idle"
    /\ received = 0
    /\ received' = received + 1
    /\ \E session_id \in SessionIds, message \in SoloMessages :
         LET call == chat_stream(store,
                                 [req[1] EXCEPT !.session_id = session_id,
                                                !.message = message])
         IN  /\ store' = call.g
             /\ req' = [req EXCEPT ![1] = call.q]
    /\ response_stream' = <<>>
    /\ UNCHANGED <<pair, norm>>

\* the response starts to iterate event_generator
SoloStartStream ==
    /\ req[1].pc = "ready"
    /\ \E items \in Reads(MaxChunks) :
         /\ req' = [req EXCEPT ![1] = start_stream(store, req[1], items)]
         /\ response_stream' = response_stream \o items
    /\ UNCHANGED <<store, received, pair, norm>>

\* the response asks for the event after a fragment
SoloResume ==
    /\ req[1].pc = "at_fragment"
    /\ \E items \in Reads(MaxChunks - Chunks(req[1].response)) :
         /\ req' = [req EXCEPT ![1] = resume(req[1], items)]
         /\ response_stream' = response_stream \o items
    /\ UNCHANGED <<store, received, pair, norm>>

NextSolo ==
    \/ CreateSession
    \/ SoloChatStream
    \/ SoloStartStream
    \/ Disconnect(1)
    \/ Poll(1)
    \/ SoloResume
    \/ Finish(1)
    \/ Return(1)

SpecSolo == InitSolo /\ [][NextSolo]_vars

-----------------------------------------------------------------------------
(* One call on its own, with a store that fails: a history file can become *)
(* unreadable (malformed data, a read that raises), which                   *)
(* load_session_history answers with an empty list.                         *)

\* the history file of a session stops being readable; data keeps what was
\* last written to it
Corrupt ==
    /\ \E id \in DOMAIN store.history_files :
         /\ store.history_files[id].ok
         /\ store' = [store EXCEPT !.history_files[id].ok = FALSE]
    /\ UNCHANGED <<req, received, pair, norm, response_stream>>

NextFault ==
    \/ NextSolo
    \/ Corrupt

SpecFault == InitSolo /\ [][NextFault]_vars

-----------------------------------------------------------------------------
(* The event loop. stream_chat_response reads the provider's stream with a  *)
(* plain for statement (gemini_client.py 66-70): a call that waits for the  *)
(* next chunk is not suspended, it keeps the thread of the event loop       *)
(* until the chunk is there. pc is then waiting_first (the generator was    *)
(* started and waits in send_message or for the first chunk) or             *)
(* waiting_next (it was resumed after a fragment).                          *)

Waiting(q) == q.pc \in {"waiting_first", "waiting_next"}

\* no call holds the thread of the event loop
LoopFree == \A r \in Reqs : ~Waiting(req[r])

LoopCreateSession == LoopFree /\ CreateSession

LoopChatStream(r) == LoopFree /\ ChatStream(r)

\* the event loop resumes the generator of call r, which runs into the read
\* of the provider's stream
LoopWait(r) ==
    /\ LoopFree
    /\ req[r].pc \in {"ready", "at_fragment"}
    /\ req' = [req EXCEPT ![r].pc = IF req[r].pc = "ready"
                                    THEN "waiting_first" ELSE "waiting_next"]
    /\ UNCHANGED <<store, received, pair, norm, response_stream>>

\* the provider delivers: the generator goes on to its next suspension point
LoopArrive(r) ==
    /\ Waiting(req[r])
    /\ \E items \in Reads(MaxChunks - Chunks(req[r].response)) :
           req' = [req EXCEPT ![r] =
                      IF req[r].pc = "waiting_first"
                      THEN start_stream(store, req[r], items)
                      ELSE resume(req[r], items)]
    /\ UNCHANGED <<store, received, pair, norm, response_stream>>

\* the caller goes away, whatever the server is doing
LoopDisconnect(r) ==
    /\ req[r].pc \in {"polling", "at_fragment", "waiting_next"}
    /\ ~req[r].disconnected
    /\ req' = [req EXCEPT ![r].disconnected = TRUE]
    /\ UNCHANGED <<store, received, pair, norm, response_stream>>

LoopPoll(r) == LoopFree /\ Poll(r)

LoopFinish(r) == LoopFree /\ Finish(r)

LoopReturn(r) == LoopFree /\ Return(r)

NextLoop ==
    \/ LoopCreateSession
    \/ \E r \in Reqs : LoopChatStream(r)
    \/ \E r \in Reqs : LoopWait(r)
    \/ \E r \in Reqs : LoopArrive(r)
    \/ \E r \in Reqs : LoopDisconnect(r)
    \/ \E r \in Reqs : LoopPoll(r)
    \/ \E r \in Reqs : LoopFinish(r)
    \/ \E r \in Reqs : LoopReturn(r)

SpecLoop == Init /\ [][NextLoop]_vars

-----------------------------------------------------------------------------
(* The history formatting of stream_chat_response on its own: it is given    *)
(* a sequence of records, and then its own output.                           *)

\* records one call is given
MaxRecords == 2

\* what the role, text and parts of a record may hold ("bob" is neither
\* "user" nor "model")
Hi         == <<"h", "i">>
RoleValues  == {"model", "bob"}
TextValues  == {Str(<<>>), Str(Hi)}
PartsValues == {List(<<>>), List(<< <<"a">>, <<"b">> >>), List(<< <<>> >>)}

\* objects and dicts with any of role, text and parts; an attribute or key
\* that is not there has no value
Records ==
    {Record(shape, has,
            IF "role" \in has THEN role ELSE "",
            IF "text" \in has THEN text ELSE None,
            IF "parts" \in has THEN parts ELSE None) :
        shape \in {"object", "dict"},
        has \in SUBSET {"role", "text", "parts"},
        role \in RoleValues, text \in TextValues, parts \in PartsValues}

RecordSeqs ==
    UNION {[1..n -> Records] : n \in 0..MaxRecords}

\* formatted_history read as records: each {"role": ..., "parts": [...]} is a
\* dict
AsRecords(turns) ==
    [i \in DOMAIN turns |->
        Record("dict", {"role", "parts"}, turns[i].role, None,
               List(turns[i].parts))]

NoOutcome == [failed |-> FALSE, turns |-> <<>>]

InitNorm ==
    /\ store = FreshStore
    /\ req = [r \in Reqs |-> NewCall]
    /\ received = 0
    /\ pair = <<>>
    /\ response_stream = <<>>
    /\ norm \in {[pc |-> "given", records |-> records,
                  first |-> NoOutcome, second |-> NoOutcome] :
                     records \in RecordSeqs}

\* gemini_client.py 23-60 on the records given
Normalize ==
    /\ norm.pc = "given"
    /\ norm' = [norm EXCEPT !.pc = "formatted",
                            !.first = format_history(norm.records)]
    /\ UNCHANGED <<store, req, received, pair, response_stream>>

\* gemini_client.py 23-60 on the formatted_history it produced
NormalizeAgain ==
    /\ norm.pc = "formatted"
    /\ ~norm.first.failed
    /\ norm' = [norm EXCEPT !.pc = "formatted_again",
                            !.second = format_history(AsRecords(norm.first.turns))]
    /\ UNCHANGED <<store, req, received, pair, response_stream>>

NextNorm ==
    \/ Normalize
    \/ NormalizeAgain

SpecNorm == InitNorm /\ [][NextNorm]_vars

-----------------------------------------------------------------------------
(* Vocabulary of the properties *)

Last(seq) == seq[Len(seq)]

\* the stored history of a session
History(session_id) == load_session_history(store.history_files, session_id)

\* the positions of message m in the stored history of its session
Positions(m) ==
    {i \in DOMAIN History(m.session_id) : History(m.session_id)[i] = m}

Persisted(m) == Positions(m) # {}

\* the model driver was invoked for call q
DriverInvoked(q) == q.seed # <<>> \/ q.sent # <<>>

\* call q passed validation
Validated(q) == q.pc \notin {"idle", "rejected"}

\* the streaming loop of call q has ended
LoopEnded(q) == q.pc \in {"at_end", "at_error", "done"}

-----------------------------------------------------------------------------
(* C1 *)

\* C1: a chat-stream request to an unknown session id is rejected with 404
\* (NotFound), a request to a known session without a model handle with 503
\* (Unavailable); the step that rejects a request changes nothing in the
\* store (no history, no title, no clock), creates no user message and
\* invokes no driver, and a rejected call does nothing afterwards.
C1_RejectionHasNoSideEffects ==
    [][\A r \in Reqs :
         /\ (req[r].pc = "idle" /\ req'[r].pc # "idle") =>
              LET q == req'[r]
              IN  /\ q.session_id \notin DOMAIN store.sessions
                        => q.pc = "rejected" /\ q.status = 404
                  /\ (q.session_id \in DOMAIN store.sessions
                          /\ store.gemini_client = "None")
                        => q.pc = "rejected" /\ q.status = 503
                  /\ q.pc = "rejected" =>
                        /\ store' = store
                        /\ q.user_msg = NoMessage
                        /\ ~DriverInvoked(q)
                        /\ q.events = <<>>
         /\ req[r].pc = "rejected" => req'[r] \in {req[r], NewCall}
      ]_vars

\* one call was rejected with 404 and another with 503
C1_Witness ==
    /\ req[1].pc = "rejected" /\ req[1].status = 404
    /\ req[2].pc = "rejected" /\ req[2].status = 503
    /\ store.history_files = EmptyMap

-----------------------------------------------------------------------------
(* C2 *)

\* C2: the user turn of a validated call is in the stored history of its
\* session from the moment the call is validated, in particular whenever
\* the driver has been invoked, and whatever the outcome of the stream; the
\* call has appended a model turn only when its streaming loop has ended
\* and its finally clause has run, and that turn is stored after the user
\* turn.
C2_SideEffectsOrdered ==
    \A r \in Reqs :
        LET q == req[r]
        IN  /\ Validated(q) => Persisted(q.user_msg)
            /\ DriverInvoked(q) => Validated(q) /\ q.pc # "ready"
            /\ q.ai_msg # NoMessage =>
                  /\ q.pc = "done"
                  /\ Persisted(q.ai_msg)
                  /\ \A i \in Positions(q.user_msg), j \in Positions(q.ai_msg) :
                         i < j

\* a call whose driver raised after a fragment has stored both turns, while
\* the other call streams with its user turn stored
C2_Witness ==
    \E r, o \in Reqs :
        /\ req[r].pc = "done"
        /\ Last(req[r].events).event = "error"
        /\ req[r].ai_msg # NoMessage
        /\ req[o].pc = "polling"
        /\ req[o].session_id = req[r].session_id

-----------------------------------------------------------------------------
(* C3 *)

\* C3: whenever the streaming loop of a call has ended (stream completed,
\* caller disconnected or driver error) with an accumulator that holds a
\* non-whitespace character, the call eventually is done with exactly one
\* model turn of its session stored for it, whose text is the whole
\* accumulator.
C3_PartialReplyPersisted ==
    \A r \in Reqs :
        (req[r].pc \in {"at_end", "at_error"}
            /\ strip(req[r].full_response_text) # <<>>)
        ~> (/\ req[r].pc = "done"
            /\ req[r].ai_msg =
                   Message(req[r].session_id, "model",
                           req[r].full_response_text, req[r].ai_msg.timestamp)
            /\ Cardinality(Positions(req[r].ai_msg)) = 1
            /\ Cardinality({i \in DOMAIN History(req[r].session_id) :
                               History(req[r].session_id)[i].timestamp
                                   > req[r].user_msg.timestamp
                               /\ History(req[r].session_id)[i].role = "model"
                               /\ History(req[r].session_id)[i].text
                                      = req[r].full_response_text}) >= 1)

\* a call whose caller disconnected after one fragment has stored that
\* fragment as its model turn
C3_Witness ==
    \E r \in Reqs :
        /\ req[r].pc = "done"
        /\ req[r].polled = <<FALSE, TRUE>>
        /\ Persisted(req[r].ai_msg)
        /\ req[r].ai_msg.text = req[r].full_response_text

-----------------------------------------------------------------------------
(* Events and fragments *)

\* the data of the fragment events among the events, in order
RECURSIVE FragmentsOf(_)
FragmentsOf(events) ==
    IF events = <<>> THEN <<>>
    ELSE (IF Head(events).event = "fragment" THEN <<Head(events).data>> ELSE <<>>)
         \o FragmentsOf(Tail(events))

\* the terminal events (end, error) among the events, in order
RECURSIVE TerminalsOf(_)
TerminalsOf(events) ==
    IF events = <<>> THEN <<>>
    ELSE (IF Head(events).event \in {"end", "error"} THEN <<Head(events)>> ELSE <<>>)
         \o TerminalsOf(Tail(events))

\* the texts of the chunks the driver has yielded, in order
RECURSIVE YieldedBy(_)
YieldedBy(response) ==
    IF response = <<>> THEN <<>>
    ELSE (IF Head(response).kind = "chunk" THEN <<Head(response).text>> ELSE <<>>)
         \o YieldedBy(Tail(response))

\* the texts one after the other
RECURSIVE Concat(_)
Concat(texts) == IF texts = <<>> THEN <<>> ELSE Head(texts) \o Concat(Tail(texts))

IsPrefix(s, t) == Len(s) <= Len(t) /\ SubSeq(t, 1, Len(s)) = s

\* the liveness poll of call q has reported the caller gone
SawDisconnect(q) == q.polled # <<>> /\ Last(q.polled)

\* how many times the poll answered that the caller is still there
Answered(q) == Cardinality({i \in DOMAIN q.polled : ~q.polled[i]})

-----------------------------------------------------------------------------
(* C4 *)

\* C4: once the liveness poll of a call has reported the caller gone, the
\* call has emitted no terminal event (no end, no error): its events are
\* the fragments emitted before that poll and nothing else.
C4_NoEventAfterDisconnect ==
    \A r \in Reqs :
        SawDisconnect(req[r]) =>
            /\ TerminalsOf(req[r].events) = <<>>
            /\ Len(req[r].events) = Answered(req[r])

-----------------------------------------------------------------------------
(* C5 *)

\* C5: for a call whose caller never disconnects: no terminal event while
\* the loop runs; once the loop has ended exactly one terminal event, the
\* last event of the call, which is the end event (data "Stream finished")
\* iff the driver's sequence completed and the error event carrying the
\* error's description iff the driver raised; the events before it are the
\* fragments the driver yielded, one event each, in order.
C5_OneTerminalEvent ==
    \A r \in Reqs :
        LET q    == req[r]
            term == TerminalsOf(q.events)
        IN  (Validated(q) /\ ~q.disconnected) =>
              /\ ~LoopEnded(q) => term = <<>>
              /\ LoopEnded(q) =>
                    /\ Len(term) = 1
                    /\ Last(q.events) = term[1]
                    /\ Last(q.response).kind \in {"end", "raise"}
                    /\ term[1] = EndEvent <=> Last(q.response) = StreamEnd
                    /\ term[1].event = "error" <=> Last(q.response).kind = "raise"
                    /\ Last(q.response).kind = "raise"
                          => term[1] = ErrorEvent(Last(q.response).text)
                    /\ q.events = [i \in 1..Len(YieldedBy(q.response)) |->
                                      Fragment(YieldedBy(q.response)[i])]
                                  \o term

\* the driver raised after one fragment: one fragment event, then one error
\* event, and the generator ended
C5_Witness ==
    \E r \in Reqs :
        /\ req[r].pc = "done"
        /\ ~req[r].disconnected
        /\ req[r].events = <<Fragment(<<"a">>), ErrorEvent(Boom)>>

-----------------------------------------------------------------------------
(* C6 *)

C6_Accumulator ==
    \A r \in Reqs :
        LET q == req[r]
        IN  /\ q.full_response_text = Concat(FragmentsOf(q.events))
            /\ IsPrefix(FragmentsOf(q.events), YieldedBy(q.response))
            /\ Len(FragmentsOf(q.events)) = Answered(q)
            /\ q.ai_msg # NoMessage =>
                  /\ q.ai_msg.text = Concat(FragmentsOf(q.events))
                  /\ Persisted(q.ai_msg)
            /\ SawDisconnect(q) =>
                  /\ YieldedBy(q.response) = Append(FragmentsOf(q.events), q.chunk)
                  /\ q.pc = "done" /\ strip(q.full_response_text) # <<>>
                        => q.ai_msg # NoMessage

\* C6: in every state of a call the accumulator is the concatenation, in
\* order, of the fragment events emitted so far, which are the first
\* fragments the driver yielded, one per poll that found the caller there;
\* the accumulator only grows by appending; the model turn the call stores
\* has exactly that text; and when the poll reports the caller gone after k
\* fragments, the fragment in hand is the k+1st the driver yielded and is
\* neither emitted nor stored, while the k emitted ones are.
C6_AccumulatorIsEmittedText ==
    [][/\ C6_Accumulator
       /\ C6_Accumulator'
       /\ \A r \in Reqs :
              req'[r].pc # "idle" =>
                  IsPrefix(req[r].full_response_text, req'[r].full_response_text)
      ]_vars

\* the caller left after the first of two fragments: one fragment event,
\* the second fragment in hand, and the first fragment stored as model turn
C6_Witness ==
    \E r \in Reqs :
        /\ req[r].pc = "done"
        /\ req[r].polled = <<FALSE, TRUE>>
        /\ YieldedBy(req[r].response) = << <<"a">>, <<" ">> >>
        /\ FragmentsOf(req[r].events) = << <<"a">> >>
        /\ req[r].ai_msg.text = <<"a">>

-----------------------------------------------------------------------------
(* C7 *)

\* C7: two runs of a validated call that start from the same store with the
\* same session id and message, meet the same provider and caller, and
\* differ in the history field of the request, agree at every step on the
\* history that seeds the driver, on the events emitted, on every other
\* local of the call and on the whole store.
C7_HistoryFieldIgnored ==
    /\ pair[1].g = pair[2].g
    /\ [pair[1].q EXCEPT !.history = <<>>] = [pair[2].q EXCEPT !.history = <<>>]

\* both runs are done on a session that had a history, with different
\* history fields, a seeded driver and a stored reply
C7_Witness ==
    /\ Both("done")
    /\ pair[1].q.history # pair[2].q.history
    /\ Len(pair[1].q.seed[1]) = 3
    /\ pair[2].q.ai_msg # NoMessage

-----------------------------------------------------------------------------
(* C8 *)

\* the words of a text, by position: where they start and where they end
WordStarts(s) ==
    {i \in 1..Len(s) : s[i] \notin Whitespace /\ (i = 1 \/ s[i - 1] \in Whitespace)}
WordEnds(s) ==
    {i \in 1..Len(s) :
        s[i] \notin Whitespace /\ (i = Len(s) \/ s[i + 1] \in Whitespace)}

\* the k-th smallest element of a set of numbers
Nth(S, k) == CHOOSE x \in S : Cardinality({y \in S : y < x}) = k - 1

\* words k..m of s, with one space between two words
RECURSIVE WordsFrom(_, _, _)
WordsFrom(s, k, m) ==
    IF k > m THEN <<>>
    ELSE SubSeq(s, Nth(WordStarts(s), k), Nth(WordEnds(s), k))
         \o (IF k < m THEN <<" ">> ELSE <<>>)
         \o WordsFrom(s, k + 1, m)

FirstFiveWords(s) == WordsFrom(s, 1, Min(5, Cardinality(WordStarts(s))))

\* the title the sessions index on disk holds for a session
StoredTitle(g, session_id) == load_all_sessions(g.sessions_file)[session_id].title

\* C8: the step that validates a request leaves the title of its session,
\* in memory and in the stored index, equal to the first five words of the
\* message joined by single spaces when the title was "New Chat", and
\* unchanged otherwise; no step changes the title of another session, and
\* no step ever changes a title that is not "New Chat".
C8_TitleUpdate ==
    [][/\ \A r \in Reqs :
             (req[r].pc = "idle" /\ req'[r].pc = "ready") =>
                 LET id       == req'[r].session_id
                     old      == store.sessions[id].title
                     expected == IF old = NewChat
                                 THEN FirstFiveWords(req'[r].message)
                                 ELSE old
                 IN  /\ store'.sessions[id].title = expected
                     /\ StoredTitle(store', id) = expected
                     /\ \A o \in DOMAIN store.sessions \ {id} :
                            store'.sessions[o] = store.sessions[o]
       /\ \A id \in DOMAIN store.sessions :
             /\ id \in DOMAIN store'.sessions
             /\ StoredTitle(store', id) = store'.sessions[id].title
             /\ store.sessions[id].title # NewChat
                   => store'.sessions[id].title = store.sessions[id].title
             /\ (\A r \in Reqs : ~(req[r].pc = "idle" /\ req'[r].pc = "ready"))
                   => store'.sessions[id].title = store.sessions[id].title
      ]_vars

\* a session was titled by the six-word message, and a later validated
\* request with another message has left that title
C8_Witness ==
    \E r \in Reqs :
        /\ req[r].pc = "ready"
        /\ req[r].message = NewChat
        /\ req[r].before # <<>>
        /\ store.sessions[req[r].session_id].title
               = <<"a", " ", "b", " ", "c", " ", "d", " ", "e">>
        /\ StoredTitle(store, req[r].session_id)
               = <<"a", " ", "b", " ", "c", " ", "d", " ", "e">>

-----------------------------------------------------------------------------
(* C9 *)

\* C9: when a call that shared its session with no other call in flight
\* finishes a stream that completed with a non-whitespace reply, the stored
\* history of the session is the history from before the request, then the
\* user turn (the message), then the model turn (the reply), and nothing
\* else.
C9_HistoryExtendedByExchange ==
    [][\A r \in Reqs :
         LET q == req'[r]
         IN  (/\ req[r].pc = "at_end" /\ q.pc = "done"
              /\ q.solo
              /\ Last(q.response) = StreamEnd
              /\ strip(Concat(YieldedBy(q.response))) # <<>>)
             => /\ load_session_history(store'.history_files, q.session_id)
                      = q.before \o <<q.user_msg, q.ai_msg>>
                /\ IsPrefix(q.before,
                            load_session_history(store.history_files, q.session_id))
                /\ q.user_msg.role = "user" /\ q.user_msg.text = q.message
                /\ q.ai_msg.role = "model"
                /\ q.ai_msg.text = Concat(YieldedBy(q.response))
                /\ q.user_msg.session_id = q.session_id
                /\ q.ai_msg.session_id = q.session_id
      ]_vars

\* a second exchange on a session: the two earlier turns, then the two new
C9_Witness ==
    \E r \in Reqs :
        /\ req[r].pc = "done"
        /\ req[r].solo
        /\ req[r].events = <<Fragment(<<"a">>), Fragment(<<" ">>), EndEvent>>
        /\ Len(req[r].before) = 2
        /\ History(req[r].session_id)
               = req[r].before \o <<req[r].user_msg, req[r].ai_msg>>

-----------------------------------------------------------------------------
(* C10 *)

C10_Stored ==
    /\ \A id \in DOMAIN store.history_files :
           \A i \in DOMAIN History(id) :
               History(id)[i].role = "model" => strip(History(id)[i].text) # <<>>
    /\ \A r \in Reqs :
           /\ req[r].ai_msg # NoMessage => strip(req[r].full_response_text) # <<>>
           /\ (req[r].pc = "done" /\ strip(req[r].full_response_text) = <<>>)
                 => req[r].ai_msg = NoMessage

\* C10: no stored model turn has an empty or whitespace-only text; a call
\* has appended a model turn only if its accumulator holds a non-whitespace
\* character; and the finally clause of a call whose accumulator is empty
\* or whitespace-only, whatever ended its loop, writes nothing to the store.
C10_NoBlankModelTurn ==
    [][/\ C10_Stored
       /\ C10_Stored'
       /\ \A r \in Reqs :
              (/\ req[r].pc \in {"at_end", "at_error"} /\ req'[r].pc = "done"
               /\ strip(req[r].full_response_text) = <<>>)
              => store' = store
      ]_vars

\* a stream of two whitespace fragments completed: nothing but the user turn
\* is stored
C10_Witness ==
    \E r \in Reqs :
        /\ req[r].pc = "done"
        /\ req[r].full_response_text = <<" ", " ">>
        /\ req[r].ai_msg = NoMessage
        /\ History(req[r].session_id) = <<req[r].user_msg>>

-----------------------------------------------------------------------------
(* C12 *)

\* the three shapes: a structured record (an object with role and text), a
\* mapping (a dict, whatever keys it has) and an object without text
Structured(rec) == rec.shape = "object" /\ "text" \in rec.has
Mapping(rec)    == rec.shape = "dict"
Bare(rec)       == rec.shape = "object" /\ "text" \notin rec.has
OfThreeShapes(rec) ==
    \/ Structured(rec) /\ "role" \in rec.has
    \/ Mapping(rec)
    \/ Bare(rec)

\* the role of the turn: model iff the record's role is literally "model"
RefRole(rec) ==
    IF "role" \in rec.has /\ rec.role = "model" THEN "model" ELSE "user"

\* a value as one string: the items of a list with one space between two
\* neighbours, a string as it is, nothing for an absent value
RECURSIVE RefString(_)
RefString(v) ==
    IF v.t = "str" THEN v.s
    ELSE IF v.t = "none" \/ v.l = <<>> THEN <<>>
    ELSE IF Len(v.l) = 1 THEN v.l[1]
    ELSE RefString(List(SubSeq(v.l, 1, Len(v.l) - 1)))
         \o <<" ">> \o v.l[Len(v.l)]

\* the content of a record: the text of a structured record; otherwise the
\* parts when present and non-empty, else the text when present
RefContent(rec) ==
    IF Structured(rec) THEN rec.text
    ELSE IF "parts" \in rec.has /\ rec.parts \notin {None, List(<<>>), Str(<<>>)}
         THEN rec.parts
         ELSE IF "text" \in rec.has THEN rec.text ELSE None

\* the turns the reference gives: the records with content, in input order
RefKept(records) ==
    SelectSeq(records, LAMBDA rec : RefString(RefContent(rec)) # <<>>)
Reference(records) ==
    [i \in DOMAIN RefKept(records) |->
        [role  |-> RefRole(RefKept(records)[i]),
         parts |-> <<RefString(RefContent(RefKept(records)[i]))>>]]

\* C12: for every sequence of records of the three shapes, the formatting
\* does not fail and gives the reference's turns: per record with content
\* one turn, in input order, with role model iff the record's role is
\* "model" and user otherwise (also when the role is missing), and with the
\* content as one string (a list joined by single spaces; for a mapping or
\* a bare object the parts when present and non-empty, else the text);
\* records without content give no turn.
C12_NormalizeAgreesWithReference ==
    (norm # <<>> /\ norm.pc # "given"
        /\ \A i \in DOMAIN norm.records : OfThreeShapes(norm.records[i]))
    => /\ ~norm.first.failed
       /\ norm.first.turns = Reference(norm.records)

\* the example of the claim: [{role: "model", text: "hi"},
\* {role: "bob", parts: ["a", "b"]}] gives [(model, "hi"), (user, "a b")]
C12_Witness ==
    /\ norm # <<>> /\ norm.pc = "formatted"
    /\ norm.records =
           <<Record("dict", {"role", "text"}, "model", Str(Hi), None),
             Record("dict", {"role", "parts"}, "bob", None,
                    List(<< <<"a">>, <<"b">> >>))>>
    /\ norm.first.turns =
           <<[role |-> "model", parts |-> <<Hi>>],
             [role |-> "user", parts |-> << <<"a", " ", "b">> >>]>>

-----------------------------------------------------------------------------
(* C13 *)

\* C13: formatting the formatted_history that a formatting produced (turns
\* with role user or model and one non-empty string each) gives that same
\* sequence again: normalize(normalize(xs)) = normalize(xs).
C13_NormalizeIdempotent ==
    (norm # <<>> /\ norm.pc = "formatted_again")
    => /\ ~norm.second.failed
       /\ norm.second.turns = norm.first.turns
       /\ \A i \in DOMAIN norm.first.turns :
              /\ norm.first.turns[i].role \in {"user", "model"}
              /\ Len(norm.first.turns[i].parts) = 1
              /\ norm.first.turns[i].parts[1] # <<>>

\* two records, one of them a list of two items, were formatted twice
C13_Witness ==
    /\ norm # <<>> /\ norm.pc = "formatted_again"
    /\ Len(norm.records) = 2
    /\ norm.second.turns =
           <<[role |-> "user", parts |-> << <<"a", " ", "b">> >>],
             [role |-> "model", parts |-> <<Hi>>]>>

-----------------------------------------------------------------------------
(* C14 *)

\* C14: the formatting never fails: whatever the records (without role,
\* without content, with a text attribute and no role attribute, of no
\* recognised shape), it ends with a turn or no turn for each record and
\* raises no error.
C14_NormalizeNeverFails ==
    (norm # <<>> /\ norm.pc # "given") => ~norm.first.failed

-----------------------------------------------------------------------------
(* C11 *)

\* the texts of the chunks that carry text among the items the provider
\* delivered, in the order of delivery
ChunkTexts(items) ==
    LET with_text == SelectSeq(items, LAMBDA item :
                                   item.kind = "chunk" /\ item.text # <<>>)
    IN  [i \in DOMAIN with_text |-> with_text[i].text]

\* C11: the fragment events of a call are, in order, a prefix of the texts
\* of the chunks the provider delivered, chunks without text left out: none
\* is duplicated, reordered or skipped; every fragment event carries a
\* non-empty text; and the prefix is everything delivered, except for the
\* one chunk in hand while the caller's liveness is awaited or when the
\* poll found the caller gone.
C11_FragmentsInProviderOrder ==
    LET q         == req[1]
        fragments == FragmentsOf(q.events)
        delivered == ChunkTexts(response_stream)
    IN  Validated(q) =>
          /\ IsPrefix(fragments, delivered)
          /\ \A i \in DOMAIN fragments : fragments[i] # <<>>
          /\ IF q.pc = "polling" \/ SawDisconnect(q)
             THEN delivered = Append(fragments, q.chunk)
             ELSE delivered = fragments

\* the provider sent a chunk without text, "a", a chunk without text, " " and
\* the end of the stream: two fragment events, "a" then " ", then the end
C11_Witness ==
    /\ req[1].pc = "done"
    /\ response_stream = <<Chunk(<<>>), Chunk(<<"a">>), Chunk(<<>>),
                           Chunk(<<" ">>), StreamEnd>>
    /\ req[1].events = <<Fragment(<<"a">>), Fragment(<<" ">>), EndEvent>>

-----------------------------------------------------------------------------
(* C15 *)

\* C15: a call opens at most one conversation and submits at most one
\* message, its own: none before its generator has started (nor when it was
\* rejected), exactly one from then on, whatever happens afterwards
\* (fragments, the end of the stream, an error, a disconnect, the finally
\* clause); nothing is retried or submitted again.
C15_SubmittedAtMostOnce ==
    LET q == req[1]
    IN  /\ Len(q.seed) <= 1 /\ Len(q.sent) <= 1
        /\ q.pc \in {"idle", "rejected", "ready"} => q.seed = <<>> /\ q.sent = <<>>
        /\ q.pc \in {"polling", "at_fragment", "at_end", "at_error", "done"}
              => Len(q.seed) = 1 /\ q.sent = <<q.message>>

\* the provider raised after a fragment and the call is over: the message
\* was submitted once
C15_Witness ==
    /\ req[1].pc = "done"
    /\ req[1].events = <<Fragment(<<"a">>), ErrorEvent(Boom)>>
    /\ req[1].sent = <<LongMessage>>
    /\ Len(req[1].seed) = 1

-----------------------------------------------------------------------------
(* C16 *)

\* message m is in the history its session has in the files
StoredIn(history_files, m) ==
    \E i \in DOMAIN load_session_history(history_files, m.session_id) :
        load_session_history(history_files, m.session_id)[i] = m

\* the history files a step leaves differ from the ones it found
Writes == store'.history_files # store.history_files

\* C16 (as stated): the load, the append and the write-back of
\* appendMessage are steps of their own, between which another request on
\* the same session can append, so that an appended message can go missing:
\* the step in which a request loads the history for its user turn has not
\* written it back yet.
C16_AppendStepsInterleave ==
    [][\A r \in Reqs :
         (req[r].pc = "idle" /\ req'[r].pc = "ready"
             /\ \E o \in Reqs \ {r} :
                    InFlight(req[o]) /\ req[o].session_id = req'[r].session_id)
         => ~Writes
      ]_vars

\* C16 (amended): with two requests in flight on the same session the
\* appends do not interleave inside append_message_to_session: every step
\* that writes a history file is one whole append, which leaves the other
\* sessions alone and extends the stored history of its session by exactly
\* the message of the call that takes the step; so the turns of the two
\* requests can alternate in the stored history, and no message a call in
\* flight has appended is missing from it.
C16_AppendsAreAtomic ==
    [][/\ Writes =>
            \E r \in Reqs :
                LET q  == req'[r]
                    id == q.session_id
                IN  /\ \/ req[r].pc = "idle" /\ q.pc = "ready"
                          /\ load_session_history(store'.history_files, id)
                                 = Append(History(id), q.user_msg)
                       \/ req[r].pc \in {"at_end", "at_error"} /\ q.pc = "done"
                          /\ load_session_history(store'.history_files, id)
                                 = Append(History(id), q.ai_msg)
                    /\ \A o \in DOMAIN store.history_files \ {id} :
                           store'.history_files[o] = store.history_files[o]
       /\ \A r \in Reqs :
              /\ Validated(req'[r])
                    => StoredIn(store'.history_files, req'[r].user_msg)
              /\ req'[r].ai_msg # NoMessage
                    => StoredIn(store'.history_files, req'[r].ai_msg)
      ]_vars

\* two requests on one session were in flight together and both are done
\* with a reply: the stored history holds the two user turns, then the two
\* replies
C16_Witness ==
    /\ req[1].pc = "done" /\ req[2].pc = "done"
    /\ req[1].session_id = req[2].session_id
    /\ ~req[1].solo /\ ~req[2].solo
    /\ \E r \in Reqs :
           History(req[1].session_id)
               = <<req[r].user_msg, req[3 - r].user_msg,
                   req[r].ai_msg, req[3 - r].ai_msg>>
    /\ req[1].ai_msg # NoMessage /\ req[2].ai_msg # NoMessage

-----------------------------------------------------------------------------
(* C17 *)

\* C17: while one call waits for the next chunk of the provider, every
\* other call can take its next step: a new request can be received, a
\* generator can be started or resumed, a liveness poll can return and a
\* finally clause can run.
C17_WaitingBlocksNoOther ==
    \A r \in Reqs :
        Waiting(req[r]) =>
            \A o \in Reqs \ {r} :
                /\ (req[o].pc = "idle" /\ received < MaxReq
                        /\ \A u \in Reqs : u < o => req[u].pc # "idle")
                      => ENABLED LoopChatStream(o)
                /\ req[o].pc \in {"ready", "at_fragment"} => ENABLED LoopWait(o)
                /\ req[o].pc = "polling" => ENABLED LoopPoll(o)
                /\ req[o].pc \in {"at_end", "at_error"} => ENABLED LoopFinish(o)

-----------------------------------------------------------------------------
(* C18 *)

\* is_disconnected() was awaited once for every fragment the driver has
\* produced, the fragment in hand excepted; the fragment in hand is the
\* last one produced and is neither accumulated nor emitted; and the poll
\* that found the caller gone is the last one, for a fragment withheld
C18_OnePollPerFragment(q) ==
    /\ Len(q.polled) = Len(YieldedBy(q.response))
                           - (IF q.pc = "polling" THEN 1 ELSE 0)
    /\ q.pc = "polling" =>
          /\ YieldedBy(q.response) = Append(FragmentsOf(q.events), q.chunk)
          /\ q.full_response_text = Concat(FragmentsOf(q.events))
    /\ \A i \in DOMAIN q.polled : q.polled[i] => i = Len(q.polled)
    /\ SawDisconnect(q) =>
          YieldedBy(q.response) = Append(FragmentsOf(q.events), q.chunk)

\* the caller went away after the last poll, and no fragment has arrived
\* since
GoneUnnoticed(q) == q.disconnected /\ ~SawDisconnect(q) /\ q.pc # "polling"

\* C18 (as stated): the liveness probe is polled exactly once for each
\* fragment the driver produces, after the fragment arrives and before it
\* is accumulated or emitted, and at no other time; and when the caller is
\* gone and the provider produces no further fragment, the call neither
\* detects the disconnect nor reaches finalization.
C18_NoFragmentNoFinalization ==
    LET q == req[1]
    IN  Validated(q) =>
          /\ C18_OnePollPerFragment(q)
          /\ GoneUnnoticed(q) => ~LoopEnded(q)

\* C18 (amended): the liveness probe is polled exactly once for each
\* fragment the driver produces, after the fragment arrives and before it
\* is accumulated or emitted, and at no other time; when the caller is gone
\* and the provider produces no further fragment, the call does not detect
\* the disconnect; it stays where it is as long as the provider delivers
\* nothing, and it reaches finalization, with the terminal event of the
\* stream, when the provider's stream ends or raises.
C18_PolledOncePerFragment ==
    LET q == req[1]
    IN  Validated(q) =>
          /\ C18_OnePollPerFragment(q)
          /\ GoneUnnoticed(q) =>
                \/ q.pc = "at_fragment"
                      /\ Last(q.response).kind = "chunk"
                \/ LoopEnded(q)
                      /\ Last(q.response).kind \in {"end", "raise"}
                      /\ Last(TerminalsOf(q.events))
                             = (IF Last(q.response).kind = "end" THEN EndEvent
                                ELSE ErrorEvent(Last(q.response).text))

\* the caller went away after the first fragment and the stream ended with
\* no further fragment: one poll, the end event, and the call is done
C18_Witness ==
    /\ req[1].pc = "done"
    /\ req[1].disconnected
    /\ req[1].polled = <<FALSE>>
    /\ req[1].events = <<Fragment(<<"a">>), EndEvent>>
    /\ Persisted(req[1].ai_msg)

-----------------------------------------------------------------------------
(* C19 *)

\* the turns that seed a conversation with a stored history: one per
\* message with text, in order
SeedOf(history) ==
    LET with_text == SelectSeq(history, LAMBDA m : m.text # <<>>)
    IN  [i \in DOMAIN with_text |->
            [role  |-> IF with_text[i].role = "model" THEN "model" ELSE "user",
             parts |-> <<with_text[i].text>>]]

\* the generator of the call takes its first step
Starts == req[1].pc = "ready" /\ req'[1].pc # "ready"

\* the history that step loads ends with the user turn the call stored
LoadsOwnTurn ==
    /\ History(req[1].session_id) = Append(req[1].before, req[1].user_msg)
    /\ req[1].user_msg.role = "user"
    /\ req[1].user_msg.text = req[1].message

\* C19 (as stated): the history the generator loads ends with the user turn
\* the same request stored, so the conversation gets the text of the
\* message twice: as the last turn of the history that seeds it and as the
\* message submitted.
C19_MessageSeededAndSent ==
    [][Starts =>
          /\ LoadsOwnTurn
          /\ req'[1].sent = <<req[1].message>>
          /\ Len(req'[1].seed) = 1
          /\ req'[1].seed[1] # <<>>
          /\ Last(req'[1].seed[1])
                 = [role |-> "user", parts |-> <<req[1].message>>]
      ]_vars

\* C19 (amended): the history the generator loads ends with the user turn
\* the same request stored; when the message is not the empty string, the
\* conversation gets its text twice, as the last turn of the history that
\* seeds it and as the message submitted; the turn of an empty message is
\* loaded and dropped by the formatting, so that the conversation is seeded
\* with the earlier turns alone and the empty text is submitted once.
C19_NonEmptyMessageSeededAndSent ==
    [][Starts =>
          /\ LoadsOwnTurn
          /\ req'[1].sent = <<req[1].message>>
          /\ Len(req'[1].seed) = 1
          /\ req[1].message # <<>> =>
                req'[1].seed[1]
                    = Append(SeedOf(req[1].before),
                             [role |-> "user", parts |-> <<req[1].message>>])
          /\ req[1].message = <<>> =>
                req'[1].seed[1] = SeedOf(req[1].before)
      ]_vars

\* the second exchange on a session: the conversation was seeded with the
\* two earlier turns and the new message, and the new message was submitted
C19_Witness ==
    /\ req[1].pc = "polling"
    /\ Len(req[1].before) = 2
    /\ req[1].message = LongMessage
    /\ Len(req[1].seed[1]) = 3
    /\ req[1].seed[1][3] = [role |-> "user", parts |-> <<LongMessage>>]
    /\ req[1].sent = <<LongMessage>>

-----------------------------------------------------------------------------
(* C20 *)

\* what was last written to the history file of a session
Written(history_files, id) ==
    IF id \in DOMAIN history_files THEN history_files[id].data ELSE <<>>

\* the message the call appends in this step, if it appends one
AppendsUser == req[1].pc = "idle" /\ req'[1].pc = "ready"
AppendsReply ==
    req[1].pc \in {"at_end", "at_error"} /\ req'[1].ai_msg # NoMessage

\* C20 (as stated): an append only ever extends the history of a session,
\* also when its read of the history fails or finds malformed data: what
\* was written to a history file before a step is a prefix of what is
\* written to it after the step, so no stored message is ever dropped.
C20_AppendOnlyExtends ==
    [][\A id \in SessionIds :
          IsPrefix(Written(store.history_files, id),
                   Written(store'.history_files, id))
      ]_vars

\* C20 (amended): an append extends the history load_session_history
\* reports: after it the stored history of the session is the sequence
\* load_session_history gave before it, followed by the new message, and
\* the other sessions are as they were. While the file is readable, what
\* was written before is a prefix of what is written after. An append whose
\* read fails or finds malformed data extends the empty sequence: the new
\* message becomes the whole stored history and the messages written before
\* are dropped.
C20_AppendExtendsWhatLoads ==
    [][/\ (AppendsUser \/ AppendsReply) =>
            LET id == req'[1].session_id
                m  == IF AppendsUser THEN req'[1].user_msg ELSE req'[1].ai_msg
            IN  /\ load_session_history(store'.history_files, id)
                       = Append(History(id), m)
                /\ Written(store'.history_files, id)
                       = load_session_history(store'.history_files, id)
                /\ (id \in DOMAIN store.history_files
                        /\ store.history_files[id].ok)
                      => IsPrefix(Written(store.history_files, id),
                                  Written(store'.history_files, id))
                /\ (id \in DOMAIN store.history_files
                        /\ ~store.history_files[id].ok)
                      => Written(store'.history_files, id) = <<m>>
                /\ \A o \in SessionIds \ {id} :
                       Written(store'.history_files, o)
                           = Written(store.history_files, o)
       /\ ~(AppendsUser \/ AppendsReply) =>
            \A id \in SessionIds :
                Written(store'.history_files, id)
                    = Written(store.history_files, id)
      ]_vars

\* a session that an earlier request had titled: its history file became
\* unreadable, and the user turn of the next request is all it holds now
C20_Witness ==
    /\ req[1].pc = "ready"
    /\ req[1].message = NewChat
    /\ store.sessions[req[1].session_id].title # NewChat
    /\ req[1].before = <<>>
    /\ Written(store.history_files, req[1].session_id) = <<req[1].user_msg>>

====
